---- MODULE Spec2Model ----
(***************************************************************************)
(* A model of the matx crate: the dynamic Matrix<T> of src/src/lib.rs (a   *)
(* flat row-major buffer `data` with the public fields `rows` and `cols`), *)
(* its cell access, its constructors, its operators and its Rows/Columns   *)
(* double-ended iterators; and the fixed-shape Matrix<T, ROWS, COLS> of    *)
(* src/src/matrix.rs with its RVector / CVector wrappers.                  *)
(*                                                                         *)
(* Conventions.  A matrix is a record [data, rows, cols]; `data` is a TLA+ *)
(* sequence, so the Rust element data[k] is data[k+1] here.  The element   *)
(* type T is f64 holding small integers, on which +, - and * are exact.    *)
(* usize is a WordBits-bit unsigned word; an overflowing usize operation   *)
(* panics in a build with overflow checks (`chk`) and wraps otherwise.     *)
(* An Option is a sequence of length 0 (None) or 1 (Some).                 *)
(***************************************************************************)
EXTENDS Integers, Sequences, FiniteSets, TLC

VARIABLES
    mat,      \* the matrix value the program holds (the receiver `self`)
    rhs,      \* the right-hand operand of a matrix-matrix operator
    res,      \* the outcome of the last operator applied to (mat, rhs)
    pre,      \* the receiver as it was before the last call
    call,     \* the last call: [op, args, kind, val]
    it,       \* the cursors of a Rows / Columns iterator: [fwd, back]
    nested,   \* the nested sequence N of the build-by-set scenario
    todo,     \* the cells of N not yet written by the build-by-set scenario
    got,      \* the items an iterator drained to exhaustion has yielded, in order
    chk       \* TRUE: the build has overflow checks (dev profile)

vars == <<mat, rhs, res, pre, call, it, nested, todo, got, chk>>

----------------------------------------------------------------------------
(* Bounds of the model. *)

MaxDim == 3
MaxCells == 6
LifeDim == 2
WordBits == 4

WordMod == 2 ^ WordBits

\* the cell values the inputs are drawn from
Vals == {0, 1}

\* the scalars the scalar operators are given
Scalars == {0, 1, 2}

Dims == 0..MaxDim

\* row / column arguments of get and set: the small ones and one large word
IdxArgs == (0..MaxDim) \cup {WordMod \div 2}

Min(a, b) == IF a <= b THEN a ELSE b

SeqsOfLen(n) == [1..n -> Vals]

SeqsUpTo(n) == UNION {SeqsOfLen(k) : k \in 0..n}

----------------------------------------------------------------------------
(* The struct and the values it can take. *)

Matrix(d, r, c) == [data |-> d, rows |-> r, cols |-> c]

\* #[derive(Default)]: an empty buffer and both dimensions 0
DefaultMatrix == Matrix(<<>>, 0, 0)

\* the data model's invariant: data.len() == rows*cols
WellFormed(m) == Len(m.data) = m.rows * m.cols

\* the well-formed matrices within the bounds
Matrices ==
    UNION {{Matrix(d, r, c) : d \in SeqsOfLen(r * c)} :
           <<r, c>> \in {s \in Dims \X Dims : s[1] * s[2] <= MaxCells}}

\* outcomes of an operator: Ok(matrix), Err(MatxError::SizeError), or a panic
Value(m) == [kind |-> "value", m |-> m]
SizeError == [kind |-> "err_size", m |-> DefaultMatrix]
Panic == [kind |-> "panic", m |-> DefaultMatrix]

\* the record of a call and of what it returned
Call(op, args, kind, val) == [op |-> op, args |-> args, kind |-> kind, val |-> val]

NoCall == Call("init", <<>>, "none", <<>>)

\* Matrix::rows and Matrix::cols: both cursors start at 0
NewCursors == [fwd |-> 0, back |-> 0]

----------------------------------------------------------------------------
(* usize arithmetic. *)

\* a * b does not fit the word
MulOverflows(a, b) == a * b >= WordMod

\* a + b does not fit the word
AddOverflows(a, b) == a + b >= WordMod

WrapMul(a, b) == (a * b) % WordMod

WrapAdd(a, b) == (a + b) % WordMod

\* a - b wraps below zero
SubOverflows(a, b) == a < b

WrapSub(a, b) == (a - b + WordMod) % WordMod

----------------------------------------------------------------------------
(* Constructors. *)

\* vec![0; rows*cols]: the length is computed in usize
NewPanics(rows, cols) == chk /\ MulOverflows(rows, cols)

NewData(rows, cols) == [i \in 1..WrapMul(rows, cols) |-> 0]

New(rows, cols) ==
    IF NewPanics(rows, cols) THEN Panic
    ELSE Value(Matrix(NewData(rows, cols), rows, cols))

\* Matrix::empty: T::default() is 0 for a number
Empty(rows, cols) ==
    IF NewPanics(rows, cols) THEN Panic
    ELSE Value(Matrix([i \in 1..WrapMul(rows, cols) |-> 0], rows, cols))

\* Matrix::rand: one draw per cell, `draws` being what the sampler returned
Rand(rows, cols, draws) ==
    IF NewPanics(rows, cols) THEN Panic
    ELSE Value(Matrix(draws, rows, cols))

RECURSIVE Flatten(_)
Flatten(value) ==
    IF value = <<>> THEN <<>>
    ELSE Head(value) \o Flatten(Tail(value))

\* From<Vec<Vec<T>>>: value[0] panics on an empty outer vector, the assert
\* panics on a row of another length
FromNested(value) ==
    IF Len(value) = 0 THEN Panic
    ELSE LET rows == Len(value)
             cols == Len(value[1])
         IN IF \E i \in 1..rows : Len(value[i]) # cols THEN Panic
            ELSE Value(Matrix(Flatten(value), rows, cols))

----------------------------------------------------------------------------
(* Cell access. *)

\* let index = row*self.cols + column, in usize
IndexOverflows(m, row, column) ==
    MulOverflows(row, m.cols) \/ AddOverflows(WrapMul(row, m.cols), column)

Index(m, row, column) == WrapAdd(WrapMul(row, m.cols), column)

\* Matrix::get: [kind, val], val the Option
Get(m, row, column) ==
    IF chk /\ IndexOverflows(m, row, column) THEN [kind |-> "panic", val |-> <<>>]
    ELSE LET index == Index(m, row, column)
         IN IF index >= Len(m.data) THEN [kind |-> "absent", val |-> <<>>]
            ELSE [kind |-> "some", val |-> <<m.data[index + 1]>>]

\* Set with the offset taken with stride `rows` instead of `cols`
SetRowsStride(m, value, row, column) ==
    LET index == row * m.rows + column
    IN IF index >= Len(m.data) THEN [kind |-> "err_index", m |-> m]
       ELSE [kind |-> "ok",
             m |-> [m EXCEPT !.data = [m.data EXCEPT ![index + 1] = value]]]

\* Matrix::set: [kind, m], m the receiver after the call
Set(m, value, row, column) ==
    IF chk /\ IndexOverflows(m, row, column) THEN [kind |-> "panic", m |-> m]
    ELSE LET index == Index(m, row, column)
         IN IF index >= Len(m.data) THEN [kind |-> "err_index", m |-> m]
            ELSE [kind |-> "ok",
                  m |-> [m EXCEPT !.data = [m.data EXCEPT ![index + 1] = value]]]

----------------------------------------------------------------------------
(* SpecCell: get and set on a matrix.  Either the program holds some       *)
(* well-formed matrix and calls get and set with any arguments, or it      *)
(* builds a matrix cell by cell: it starts from new(rows, cols) and calls  *)
(* set(N[r][c], r, c) once for every cell of a nested sequence N, in any   *)
(* order (`nested` is N, `todo` the cells still to write).  A panic ends   *)
(* the program.                                                            *)

\* the rectangular nested sequences with at least one row
RectNested ==
    UNION {[1..r -> SeqsOfLen(c)] :
           <<r, c>> \in {s \in (1..MaxDim) \X Dims : s[1] * s[2] <= MaxCells}}

CellsOf(m) == (0..(m.rows - 1)) \X (0..(m.cols - 1))

InitCell ==
    /\ chk \in BOOLEAN
    /\ \/ /\ mat \in Matrices
          /\ nested = <<>>
          /\ todo = {}
       \/ /\ nested \in RectNested
          /\ mat = New(Len(nested), Len(nested[1])).m
          /\ todo = CellsOf(mat)
    /\ pre = mat
    /\ rhs = DefaultMatrix
    /\ res = Value(DefaultMatrix)
    /\ call = NoCall
    /\ it = NewCursors
    /\ got = <<>>

CellGet ==
    /\ call.kind # "panic"
    /\ nested = <<>>
    /\ \E row \in IdxArgs, column \in IdxArgs :
          LET o == Get(mat, row, column)
          IN /\ call' = Call("get", <<row, column>>, o.kind, o.val)
             /\ pre' = mat
    /\ UNCHANGED <<mat, rhs, res, it, nested, todo, got, chk>>

CellSet ==
    /\ call.kind # "panic"
    /\ \E value \in Vals, row \in IdxArgs, column \in IdxArgs :
          /\ nested # <<>> =>
                /\ <<row, column>> \in todo
                /\ value = nested[row + 1][column + 1]
          /\ LET o == Set(mat, value, row, column)
             IN /\ call' = Call("set", <<value, row, column>>, o.kind, <<>>)
                /\ pre' = mat
                /\ mat' = o.m
                /\ todo' = IF o.kind = "ok" THEN todo \ {<<row, column>>} ELSE todo
    /\ UNCHANGED <<rhs, res, it, nested, got, chk>>

NextCell == CellGet \/ CellSet

SpecCell == InitCell /\ [][NextCell]_vars

\* the arguments of the last get or set
ArgRow == call.args[Len(call.args) - 1]
ArgCol == call.args[Len(call.args)]

\* (row, col) names a cell of the receiver
IsCell(m, row, column) == row < m.rows /\ column < m.cols

\* the mathematical offset row*cols + col fits the word
OffsetFits(m, row, column) == row * m.cols + column < WordMod

----------------------------------------------------------------------------
(* Arithmetic of the element type. *)

TAdd(x, y) == x + y

TSub(x, y) == x - y

TMul(x, y) == x * y

TNeg(x) == 0 - x

\* x / y is kept as the pair <<x, y>>: the quotient of two f64 need not be
\* an integer (nor finite), and no claim reads its value
TDiv(x, y) == <<x, y>>

\* Pow::pow(base, exponent), for an exponent >= 0
RECURSIVE TPow(_, _)
TPow(base, exponent) ==
    IF exponent <= 0 THEN 1 ELSE base * TPow(base, exponent - 1)

\* the operator of T an impl uses: "add", "sub", "mul" or "div"
TOp(op, x, y) ==
    CASE op = "add" -> TAdd(x, y)
      [] op = "sub" -> TSub(x, y)
      [] op = "mul" -> TMul(x, y)
      [] op = "div" -> TDiv(x, y)

----------------------------------------------------------------------------
(* Matrix-matrix operators.  Each returns Value(out), SizeError or Panic.  *)

\* add / sub with the shape test on the rows alone
ElementwiseRowsOnly(a, b, op) ==
    IF a.rows # b.rows THEN SizeError
    ELSE LET out == NewData(a.rows, a.cols)
             n == Min(Len(a.data), Len(b.data))
         IN IF n > Len(out) THEN Panic
            ELSE Value(Matrix([i \in 1..Len(out) |->
                                  IF i <= n THEN TOp(op, a.data[i], b.data[i]) ELSE out[i]],
                              a.rows, a.cols))

\* the body shared by add and sub: the shape test, out = new(rows, cols),
\* then out.data[i] = a op b over zip(self.data, rhs.data).enumerate()
Elementwise(a, b, op) ==
    IF a.rows # b.rows \/ a.cols # b.cols THEN SizeError
    ELSE IF NewPanics(a.rows, a.cols) THEN Panic
    ELSE LET out == NewData(a.rows, a.cols)
             n == Min(Len(a.data), Len(b.data))
         IN IF n > Len(out) THEN Panic
            ELSE Value(Matrix([i \in 1..Len(out) |->
                                  IF i <= n THEN TOp(op, a.data[i], b.data[i]) ELSE out[i]],
                              a.rows, a.cols))

AddMM(a, b) == Elementwise(a, b, "add")

\* sub with the operands exchanged
SubMMSwapped(a, b) == Elementwise(b, a, "sub")

SubMM(a, b) == Elementwise(a, b, "sub")

\* the indices the triple loop of mul and div reads and writes
LoopIndicesOk(a, b, out) ==
    \A i \in 0..(a.rows - 1), j \in 0..(b.cols - 1), k \in 0..(a.cols - 1) :
        /\ i * b.cols + j < Len(out)
        /\ i * b.rows + k < Len(a.data)
        /\ k * b.cols + j < Len(b.data)

\* out.data[i*rhs.cols+j] after the first n rounds of the loop over k,
\* starting from the cell `zero` that new() stored
RECURSIVE Accumulate(_, _, _, _, _, _)
Accumulate(a, b, i, j, n, zero) ==
    IF n = 0 THEN zero
    ELSE TAdd(Accumulate(a, b, i, j, n - 1, zero),
              TMul(a.data[i * b.rows + (n - 1) + 1], b.data[(n - 1) * b.cols + j + 1]))

\* the product with A read at stride A.rows
MulMMRowsStride(a, b) ==
    IF a.cols # b.rows THEN SizeError
    ELSE LET out == NewData(a.rows, b.cols)
             ok == \A i \in 0..(a.rows - 1), k \in 0..(a.cols - 1) :
                       i * a.rows + k < Len(a.data)
             cell(i, j) ==
                 LET F[n \in 0..a.cols] ==
                         IF n = 0 THEN 0
                         ELSE F[n - 1] + a.data[i * a.rows + (n - 1) + 1]
                                         * b.data[(n - 1) * b.cols + j + 1]
                 IN F[a.cols]
         IN IF ~ok THEN Panic
            ELSE Value(Matrix([x \in 1..Len(out) |->
                                  cell((x - 1) \div b.cols, (x - 1) % b.cols)],
                              a.rows, b.cols))

\* Mul<Matrix<T>>::mul
MulMM(a, b) ==
    IF a.cols # b.rows THEN SizeError
    ELSE IF NewPanics(a.rows, b.cols) THEN Panic
    ELSE LET out == NewData(a.rows, b.cols)
         IN IF ~LoopIndicesOk(a, b, out) THEN Panic
            ELSE Value(Matrix([x \in 1..Len(out) |->
                                  Accumulate(a, b, (x - 1) \div b.cols,
                                             (x - 1) % b.cols, a.cols, out[x])],
                              a.rows, b.cols))

\* the terms a[i,k] / b[k,j], k = 0..cols-1, that div adds to the cell in turn
Quotients(a, b, i, j) ==
    [n \in 1..a.cols |->
        TDiv(a.data[i * b.rows + (n - 1) + 1], b.data[(n - 1) * b.cols + j + 1])]

\* Div<Matrix<T>>::div: a cell of the result is the list of quotients summed
\* into it, from the zero new() stored
DivMM(a, b) ==
    IF a.cols # b.rows THEN SizeError
    ELSE IF NewPanics(a.rows, b.cols) THEN Panic
    ELSE LET out == NewData(a.rows, b.cols)
         IN IF ~LoopIndicesOk(a, b, out) THEN Panic
            ELSE Value(Matrix([x \in 1..Len(out) |->
                                  Quotients(a, b, (x - 1) \div b.cols, (x - 1) % b.cols)],
                              a.rows, b.cols))

----------------------------------------------------------------------------
(* Matrix-scalar and unary operators. *)

\* the scalar loop stopping one cell before the end of the buffer
ScalarMapSkipLast(a, s, op) ==
    LET out == NewData(a.rows, a.cols)
    IN Value(Matrix([i \in 1..Len(out) |->
                        IF i < Len(a.data) THEN TOp(op, a.data[i], s) ELSE out[i]],
                    a.rows, a.cols))

\* the body shared by Add<T>, Sub<T>, Mul<T> and Div<T>: out = new(rows,
\* cols), then out.data[i] = val op rhs over self.data.iter().enumerate()
ScalarMap(a, s, op) ==
    IF NewPanics(a.rows, a.cols) THEN Panic
    ELSE LET out == NewData(a.rows, a.cols)
         IN IF Len(a.data) > Len(out) THEN Panic
            ELSE Value(Matrix([i \in 1..Len(out) |->
                                  IF i <= Len(a.data) THEN TOp(op, a.data[i], s) ELSE out[i]],
                              a.rows, a.cols))

AddS(a, s) == ScalarMap(a, s, "add")

SubS(a, s) == ScalarMap(a, s, "sub")

MulS(a, s) == ScalarMap(a, s, "mul")

\* a cell of the result is the quotient val / rhs
DivS(a, s) == ScalarMap(a, s, "div")

\* Neg::neg
Neg(a) == Value(Matrix([i \in 1..Len(a.data) |-> TNeg(a.data[i])], a.rows, a.cols))

\* pow with the cell as the base and the scalar as the exponent
PowCellBase(a, s) ==
    Value(Matrix([i \in 1..Len(a.data) |-> TPow(a.data[i], s)], a.rows, a.cols))

\* Pow<T>::pow: the scalar is the base, the cell the exponent
PowS(a, s) ==
    Value(Matrix([i \in 1..Len(a.data) |-> TPow(s, a.data[i])], a.rows, a.cols))

\* Matrix::apply, f the closure as a function of the cell
Apply(a, f) == Value(Matrix([i \in 1..Len(a.data) |-> f[a.data[i]]], a.rows, a.cols))

\* the rows in reverse order, each row kept as it is
ReverseRowOrder(a) ==
    Value(Matrix([i \in 1..Len(a.data) |->
                     a.data[(a.rows - 1 - ((i - 1) \div a.cols)) * a.cols
                            + ((i - 1) % a.cols) + 1]],
                 a.rows, a.cols))

\* Matrix::reverse
Reverse(a) ==
    Value(Matrix([i \in 1..Len(a.data) |-> a.data[Len(a.data) - i + 1]],
                 a.rows, a.cols))

----------------------------------------------------------------------------
(* SpecBin: the program holds two well-formed matrices A (`mat`) and B     *)
(* (`rhs`) and applies one matrix-matrix operator to them; the operator    *)
(* consumes both.                                                          *)

InitBin ==
    /\ chk \in BOOLEAN
    /\ mat \in Matrices
    /\ rhs \in Matrices
    /\ pre = mat
    /\ res = Value(DefaultMatrix)
    /\ call = NoCall
    /\ it = NewCursors
    /\ got = <<>>
    /\ nested = <<>>
    /\ todo = {}

BinCall(op, o) ==
    /\ call.op = "init"
    /\ res' = o
    /\ call' = Call(op, <<>>, o.kind, <<>>)
    /\ UNCHANGED <<mat, rhs, pre, it, nested, todo, got, chk>>

BinAdd == BinCall("add", AddMM(mat, rhs))

BinSub == BinCall("sub", SubMM(mat, rhs))

BinMul == BinCall("mul", MulMM(mat, rhs))

BinDiv == BinCall("div", DivMM(mat, rhs))

NextBin == BinAdd \/ BinSub \/ BinMul \/ BinDiv

SpecBin == InitBin /\ [][NextBin]_vars

----------------------------------------------------------------------------
(* The Rows and Columns iterators: Rows(&matrix, fwd, back) and            *)
(* Columns(&matrix, fwd, back).  A step returns [kind, val, it]: kind is   *)
(* "some", "none" or "panic", val the Option<Vec<T>>, it the cursors after *)
(* the call.                                                               *)

Step(kind, val, cursors) == [kind |-> kind, val |-> val, it |-> cursors]

\* self.0.data[index..index+cols].to_owned(); the slice must lie in the buffer
SliceOk(m, index) == index + m.cols <= Len(m.data)

Slice(m, index) == [i \in 1..m.cols |-> m.data[index + i]]

\* Rows::next
RowsNext(m, c) ==
    LET index == c.fwd * m.cols
    IN IF index + c.back * m.cols < Len(m.data)
       THEN IF SliceOk(m, index)
            THEN Step("some", <<Slice(m, index)>>, [c EXCEPT !.fwd = c.fwd + 1])
            ELSE Step("panic", <<>>, c)
       ELSE Step("none", <<>>, c)

\* the usize value of rows - back - 1 in Rows::next_back
BackRowOverflows(m, c) ==
    SubOverflows(m.rows, c.back) \/ SubOverflows(WrapSub(m.rows, c.back), 1)

BackRow(m, c) == WrapSub(WrapSub(m.rows, c.back), 1)

\* Rows::next_back: the index is computed before the test
RowsNextBack(m, c) ==
    IF chk /\ (BackRowOverflows(m, c) \/ MulOverflows(BackRow(m, c), m.cols))
    THEN Step("panic", <<>>, c)
    ELSE LET index == WrapMul(BackRow(m, c), m.cols)
         IN IF c.fwd * m.cols + c.back * m.cols < Len(m.data)
            THEN IF SliceOk(m, index)
                 THEN Step("some", <<Slice(m, index)>>, [c EXCEPT !.back = c.back + 1])
                 ELSE Step("panic", <<>>, c)
            ELSE Step("none", <<>>, c)

\* the gather loop of Columns: for i in 0..rows, data[i*rows + column]
GatherOk(m, column) ==
    \A i \in 0..(m.rows - 1) : i * m.rows + column < Len(m.data)

Gather(m, column) == [k \in 1..m.rows |-> m.data[(k - 1) * m.rows + column + 1]]

\* Columns::next
ColumnsNext(m, c) ==
    IF c.fwd * m.rows + c.back * m.rows < Len(m.data)
    THEN IF GatherOk(m, c.fwd)
         THEN Step("some", <<Gather(m, c.fwd)>>, [c EXCEPT !.fwd = c.fwd + 1])
         ELSE Step("panic", <<>>, c)
    ELSE Step("none", <<>>, c)

\* the usize value of cols - back - 1 in Columns::next_back
BackColOverflows(m, c) ==
    SubOverflows(m.cols, c.back) \/ SubOverflows(WrapSub(m.cols, c.back), 1)

BackCol(m, c) == WrapSub(WrapSub(m.cols, c.back), 1)

\* Columns::next_back: the column is computed inside the loop
ColumnsNextBack(m, c) ==
    IF c.fwd * m.rows + c.back * m.rows < Len(m.data)
    THEN IF m.rows > 0 /\ chk /\ BackColOverflows(m, c)
         THEN Step("panic", <<>>, c)
         ELSE IF GatherOk(m, BackCol(m, c))
              THEN Step("some", <<Gather(m, BackCol(m, c))>>,
                        [c EXCEPT !.back = c.back + 1])
              ELSE Step("panic", <<>>, c)
    ELSE Step("none", <<>>, c)

----------------------------------------------------------------------------
(* SpecRows and SpecCols: the program holds a well-formed matrix, takes    *)
(* its rows() (resp. cols()) iterator and calls next and next_back in any  *)
(* order.  call.args are the cursors before the call.                      *)

InitIter ==
    /\ chk \in BOOLEAN
    /\ mat \in Matrices
    /\ pre = mat
    /\ rhs = DefaultMatrix
    /\ res = Value(DefaultMatrix)
    /\ call = NoCall
    /\ it = NewCursors
    /\ got = <<>>
    /\ nested = <<>>
    /\ todo = {}

IterCall(op, o) ==
    /\ call' = Call(op, <<it.fwd, it.back>>, o.kind, o.val)
    /\ it' = o.it
    /\ UNCHANGED <<mat, rhs, res, pre, nested, todo, got, chk>>

RowsNextCall == call.kind # "panic" /\ IterCall("rows_next", RowsNext(mat, it))

RowsNextBackCall ==
    call.kind # "panic" /\ IterCall("rows_next_back", RowsNextBack(mat, it))

ColumnsNextCall ==
    call.kind # "panic" /\ IterCall("cols_next", ColumnsNext(mat, it))

ColumnsNextBackCall ==
    call.kind # "panic" /\ IterCall("cols_next_back", ColumnsNextBack(mat, it))

NextRows == RowsNextCall \/ RowsNextBackCall

NextCols == ColumnsNextCall \/ ColumnsNextBackCall

SpecRows == InitIter /\ [][NextRows]_vars

SpecCols == InitIter /\ [][NextCols]_vars

\* row r of m as the claim describes it: the length-cols slice at r*cols
RowOf(m, r) == [j \in 1..m.cols |-> m.data[r * m.cols + j]]

\* column c of m as the claim describes it: the cells at offsets i*cols + c
ColumnOf(m, c) == [i \in 1..m.rows |-> m.data[(i - 1) * m.cols + c + 1]]

----------------------------------------------------------------------------
(* SpecUn: the program holds a well-formed matrix A (`mat`) and applies    *)
(* one matrix-scalar operator to it (call.args is the scalar), or calls    *)
(* reverse on it and then reverse on the result (call.args counts the      *)
(* calls).  `res` is what the last call returned.                          *)

UnCall(op, s, o) ==
    /\ call.op = "init"
    /\ res' = o
    /\ call' = Call(op, <<s>>, o.kind, <<>>)
    /\ UNCHANGED <<mat, rhs, pre, it, nested, todo, got, chk>>

UnAddS == \E s \in Scalars : UnCall("add_s", s, AddS(mat, s))

UnSubS == \E s \in Scalars : UnCall("sub_s", s, SubS(mat, s))

UnMulS == \E s \in Scalars : UnCall("mul_s", s, MulS(mat, s))

UnDivS == \E s \in Scalars : UnCall("div_s", s, DivS(mat, s))

UnNeg == UnCall("neg", 0, Neg(mat))

UnPow == \E s \in Scalars : UnCall("pow", s, PowS(mat, s))

\* let r = a.reverse()
UnReverse == UnCall("reverse", 1, Reverse(mat))

\* let rr = r.reverse()
UnReverseAgain ==
    /\ call.op = "reverse"
    /\ call.args = <<1>>
    /\ res' = Reverse(res.m)
    /\ call' = Call("reverse", <<2>>, res'.kind, <<>>)
    /\ UNCHANGED <<mat, rhs, pre, it, nested, todo, got, chk>>

NextUn ==
    \/ UnAddS \/ UnSubS \/ UnMulS \/ UnDivS
    \/ UnNeg \/ UnPow \/ UnReverse \/ UnReverseAgain

SpecUn == InitIter /\ [][NextUn]_vars

----------------------------------------------------------------------------
(* SpecLife: the life of one matrix value through the public interface.    *)
(* The program starts with Matrix::default() and then constructs, decodes, *)
(* writes the public fields, calls set, and applies operators, keeping the *)
(* result of an operator as its matrix when the cells stay within Vals.    *)
(* Operands are cloned, so a failed operator leaves the matrix held.       *)

LifeDims == 0..LifeDim

LifeData == SeqsUpTo(LifeDim * LifeDim)

\* the well-formed operands of the operators
LifeMatrices ==
    UNION {{Matrix(d, r, c) : d \in SeqsOfLen(r * c)} : <<r, c>> \in LifeDims \X LifeDims}

RECURSIVE SumSeq(_)
SumSeq(q) == IF q = <<>> THEN 0 ELSE Head(q) + SumSeq(Tail(q))

\* split the flat sequence d into rows of the lengths lens
Unflatten(d, lens) ==
    [i \in 1..Len(lens) |->
        SubSeq(d, SumSeq(SubSeq(lens, 1, i - 1)) + 1, SumSeq(SubSeq(lens, 1, i)))]

\* the nested sequences given to From: empty, ragged and rectangular
LifeNested ==
    UNION {{Unflatten(d, lens) : d \in SeqsOfLen(SumSeq(lens))} :
           lens \in UNION {[1..r -> LifeDims] : r \in LifeDims}}

\* the quotient x / y is an integer, and that integer
ExactQuotient(p) == p[2] # 0 /\ p[1] % p[2] = 0

Quotient(p) == p[1] \div p[2]

\* the quotients summed into a cell of A / B are all exact, and their sum
ExactCell(q) == \A n \in 1..Len(q) : ExactQuotient(q[n])

ExactSum(q) == SumSeq([n \in 1..Len(q) |-> Quotient(q[n])])

InRange(m) == \A i \in 1..Len(m.data) : m.data[i] \in Vals

InitLife ==
    /\ chk \in BOOLEAN
    /\ mat = DefaultMatrix
    /\ pre = mat
    /\ rhs = DefaultMatrix
    /\ res = Value(DefaultMatrix)
    /\ call = NoCall
    /\ it = NewCursors
    /\ got = <<>>
    /\ nested = <<>>
    /\ todo = {}

\* the program keeps the outcome o of a constructor or an operator
Keep(o) ==
    /\ call.kind # "panic"
    /\ o.kind = "value" => InRange(o.m)
    /\ mat' = IF o.kind = "value" THEN o.m ELSE mat
    /\ call' = Call("life", <<>>, o.kind, <<>>)
    /\ UNCHANGED <<rhs, res, pre, it, nested, todo, got, chk>>

LifeNew == \E r \in LifeDims, c \in LifeDims : Keep(New(r, c))

LifeEmpty == \E r \in LifeDims, c \in LifeDims : Keep(Empty(r, c))

LifeRand ==
    \E r \in LifeDims, c \in LifeDims :
        \E draws \in SeqsOfLen(WrapMul(r, c)) : Keep(Rand(r, c, draws))

LifeFrom == \E value \in LifeNested : Keep(FromNested(value))

\* serde's derived Deserialize stores the three fields as it reads them
LifeDecode ==
    \E d \in LifeData, r \in LifeDims, c \in LifeDims : Keep(Value(Matrix(d, r, c)))

\* m.rows = r: the field is public
LifeWriteRows == \E r \in LifeDims : Keep(Value([mat EXCEPT !.rows = r]))

\* m.cols = c: the field is public
LifeWriteCols == \E c \in LifeDims : Keep(Value([mat EXCEPT !.cols = c]))

LifeSet ==
    \E value \in Vals, row \in LifeDims \cup {WordMod \div 2},
       column \in LifeDims \cup {WordMod \div 2} :
        LET o == Set(mat, value, row, column)
        IN /\ call.kind # "panic"
           /\ mat' = o.m
           /\ call' = Call("life", <<>>, o.kind, <<>>)
           /\ UNCHANGED <<rhs, res, pre, it, nested, todo, got, chk>>

LifeAddMM == \E b \in LifeMatrices : Keep(AddMM(mat, b))

LifeSubMM == \E b \in LifeMatrices : Keep(SubMM(mat, b))

LifeMulMM == \E b \in LifeMatrices : Keep(MulMM(mat, b))

\* A / B where every quotient is exact
LifeDivMM ==
    \E b \in LifeMatrices :
        LET o == DivMM(mat, b)
        IN /\ o.kind = "value" => \A i \in 1..Len(o.m.data) : ExactCell(o.m.data[i])
           /\ Keep(IF o.kind # "value" THEN o
                   ELSE Value([o.m EXCEPT !.data =
                                  [i \in 1..Len(o.m.data) |-> ExactSum(o.m.data[i])]]))

LifeAddS == \E s \in Scalars : Keep(AddS(mat, s))

LifeSubS == \E s \in Scalars : Keep(SubS(mat, s))

LifeMulS == \E s \in Scalars : Keep(MulS(mat, s))

\* A / s where every quotient is exact; a cell past the end of A's buffer
\* keeps the zero of new()
LifeDivS ==
    \E s \in Scalars :
        LET o == DivS(mat, s)
            n == Len(mat.data)
        IN /\ o.kind = "value" => \A i \in 1..n : ExactQuotient(o.m.data[i])
           /\ Keep(IF o.kind # "value" THEN o
                   ELSE Value([o.m EXCEPT !.data =
                                  [i \in 1..Len(o.m.data) |->
                                      IF i <= n THEN Quotient(o.m.data[i])
                                      ELSE o.m.data[i]]]))

LifeNeg == Keep(Neg(mat))

LifePow == \E s \in Scalars : Keep(PowS(mat, s))

LifeApply == \E f \in [Vals -> Vals] : Keep(Apply(mat, f))

LifeReverse == Keep(Reverse(mat))

NextLife ==
    \/ LifeNew \/ LifeEmpty \/ LifeRand \/ LifeFrom \/ LifeDecode
    \/ LifeWriteRows \/ LifeWriteCols \/ LifeSet
    \/ LifeAddMM \/ LifeSubMM \/ LifeMulMM \/ LifeDivMM
    \/ LifeAddS \/ LifeSubS \/ LifeMulS \/ LifeDivS
    \/ LifeNeg \/ LifePow \/ LifeApply \/ LifeReverse

SpecLife == InitLife /\ [][NextLife]_vars

----------------------------------------------------------------------------
(* SpecFrom: the program holds a nested sequence N (`nested`: empty,       *)
(* ragged or rectangular), converts it with Matrix::from, and collects     *)
(* the rows() iterator of the result: next is called until it returns      *)
(* None, the items going to `got` in order.  A panic ends the program.     *)

InitFrom ==
    /\ chk \in BOOLEAN
    /\ nested \in LifeNested
    /\ mat = DefaultMatrix
    /\ pre = mat
    /\ rhs = DefaultMatrix
    /\ res = Value(DefaultMatrix)
    /\ call = NoCall
    /\ it = NewCursors
    /\ got = <<>>
    /\ todo = {}

\* let m = Matrix::from(N)
FromCall ==
    /\ call.op = "init"
    /\ LET o == FromNested(nested)
       IN /\ res' = o
          /\ mat' = o.m
          /\ call' = Call("from", <<>>, o.kind, <<>>)
    /\ UNCHANGED <<rhs, pre, it, nested, todo, got, chk>>

\* one round of m.rows().collect(): a call of Rows::next, its item pushed
CollectNext ==
    /\ \/ call.op = "from" /\ call.kind = "value"
       \/ call.op = "collect" /\ call.kind = "some"
    /\ LET o == RowsNext(mat, it)
       IN /\ call' = Call("collect", <<it.fwd, it.back>>, o.kind, o.val)
          /\ it' = o.it
          /\ got' = got \o o.val
    /\ UNCHANGED <<mat, rhs, res, pre, nested, todo, chk>>

NextFrom == FromCall \/ CollectNext

SpecFrom == InitFrom /\ [][NextFrom]_vars

\* the inner sequences of N all have the same length
Rectangular(value) ==
    \A i \in 1..Len(value), j \in 1..Len(value) : Len(value[i]) = Len(value[j])

----------------------------------------------------------------------------
(* The fixed-shape Matrix<T, ROWS, COLS> of matrix.rs.  A value is the     *)
(* record [data, rows, cols] with rows and cols the parameters ROWS and     *)
(* COLS of its type; only `data` is stored.  RVector<T, COLS> wraps a       *)
(* Matrix<T, 1, COLS> and CVector<T, ROWS> a Matrix<T, ROWS, 1>, and are    *)
(* the records of the matrices they wrap.                                   *)

\* the Err(&'static str) of the fixed-shape product
StrError == [kind |-> "err_str", m |-> DefaultMatrix]

\* Matrix::<T, ROWS, COLS>::new: vec![T::default(); ROWS*COLS]
FixedNew(ROWS, COLS) ==
    IF chk /\ MulOverflows(ROWS, COLS) THEN Panic
    ELSE Value(Matrix([i \in 1..WrapMul(ROWS, COLS) |-> 0], ROWS, COLS))

\* Matrix::<T, ROWS, COLS>::rand: one push per i in 0..ROWS*COLS
FixedRand(ROWS, COLS, draws) ==
    IF chk /\ MulOverflows(ROWS, COLS) THEN Panic
    ELSE Value(Matrix(draws, ROWS, COLS))

\* From<Vec<Vec<T>>>: both asserts
FixedFrom(value, ROWS, COLS) ==
    IF Len(value) # ROWS THEN Panic
    ELSE IF \E i \in 1..Len(value) : Len(value[i]) # COLS THEN Panic
    ELSE Value(Matrix(Flatten(value), ROWS, COLS))

\* set: the code of the dynamic set with COLS for self.cols
FixedSet(m, value, row, column) == Set(m, value, row, column)

\* reverse: the buffer reversed, whatever its length
FixedReverse(a) ==
    Value(Matrix([i \in 1..Len(a.data) |-> a.data[Len(a.data) - i + 1]],
                 a.rows, a.cols))

\* the cells the double loop over 0..ROWS, 0..COLS reads lie in the buffer d
CellsInBuffer(a, d) ==
    \A i \in 0..(a.rows - 1), j \in 0..(a.cols - 1) : i * a.cols + j < Len(d)

\* Add<Matrix<T, ROWS, COLS>>::add: out = new(), then the double loop
FixedAdd(a, b) ==
    LET out == FixedNew(a.rows, a.cols)
    IN IF out.kind = "panic" THEN Panic
       ELSE IF ~(CellsInBuffer(a, a.data) /\ CellsInBuffer(a, b.data)) THEN Panic
       ELSE Value(Matrix([x \in 1..Len(out.m.data) |-> TAdd(a.data[x], b.data[x])],
                         a.rows, a.cols))

\* Add<T>::add
FixedAddS(a, s) ==
    LET out == FixedNew(a.rows, a.cols)
    IN IF out.kind = "panic" THEN Panic
       ELSE IF ~CellsInBuffer(a, a.data) THEN Panic
       ELSE Value(Matrix([x \in 1..Len(out.m.data) |-> TAdd(a.data[x], s)],
                         a.rows, a.cols))

\* Mul<Matrix<T, O_ROWS, O_COLS>>::mul: out = Matrix::<T, ROWS, O_COLS>::new()
FixedMul(a, b) ==
    IF a.cols # b.rows THEN StrError
    ELSE LET out == FixedNew(a.rows, b.cols)
         IN IF out.kind = "panic" THEN Panic
            ELSE IF ~LoopIndicesOk(a, b, out.m.data) THEN Panic
            ELSE Value(Matrix([x \in 1..Len(out.m.data) |->
                                  Accumulate(a, b, (x - 1) \div b.cols,
                                             (x - 1) % b.cols, a.cols, out.m.data[x])],
                              a.rows, b.cols))

\* From<Vec<T>> for RVector<T, COLS>: the vector is stored as it comes
RVectorFromVec(value, COLS) == Matrix(value, 1, COLS)

\* From<Vec<T>> for CVector<T, ROWS>
CVectorFromVec(value, ROWS) == Matrix(value, ROWS, 1)

\* From<CVector<T, COLS>> for RVector<T, COLS>: the buffer cloned
RVectorFromCVector(v) == Matrix(v.data, 1, v.rows)

\* From<RVector<T, ROWS>> for CVector<T, ROWS>
CVectorFromRVector(v) == Matrix(v.data, v.cols, 1)

\* as_mat / as_mut_mat: the wrapped matrix
AsMat(v) == v

----------------------------------------------------------------------------
(* SpecFixed: the life of one fixed-shape matrix value.  The program       *)
(* starts with Matrix::<T, ROWS, COLS>::new() for some ROWS and COLS and    *)
(* then constructs, converts, calls set and applies operators, keeping the  *)
(* result as its matrix when the cells stay within Vals.                    *)

InitFixed ==
    /\ chk \in BOOLEAN
    /\ \E ROWS \in LifeDims, COLS \in LifeDims : mat = FixedNew(ROWS, COLS).m
    /\ pre = mat
    /\ rhs = DefaultMatrix
    /\ res = Value(DefaultMatrix)
    /\ call = NoCall
    /\ it = NewCursors
    /\ got = <<>>
    /\ nested = <<>>
    /\ todo = {}

FixNew == \E r \in LifeDims, c \in LifeDims : Keep(FixedNew(r, c))

FixRand ==
    \E r \in LifeDims, c \in LifeDims :
        \E draws \in SeqsOfLen(WrapMul(r, c)) : Keep(FixedRand(r, c, draws))

FixFrom ==
    \E r \in LifeDims, c \in LifeDims, value \in LifeNested : Keep(FixedFrom(value, r, c))

FixSet ==
    \E value \in Vals, row \in LifeDims, column \in LifeDims :
        LET o == FixedSet(mat, value, row, column)
        IN /\ call.kind # "panic"
           /\ mat' = o.m
           /\ call' = Call("life", <<>>, o.kind, <<>>)
           /\ UNCHANGED <<rhs, res, pre, it, nested, todo, got, chk>>

\* a + b, b of a's type
FixAdd ==
    \E b \in LifeMatrices :
        /\ b.rows = mat.rows
        /\ b.cols = mat.cols
        /\ Keep(FixedAdd(mat, b))

FixAddS == \E s \in Scalars : Keep(FixedAddS(mat, s))

FixMul == \E b \in LifeMatrices : Keep(FixedMul(mat, b))

FixReverse == Keep(FixedReverse(mat))

\* RVector::<T, COLS>::from(value).as_mat()
FixRVector ==
    \E value \in LifeData, c \in LifeDims : Keep(Value(AsMat(RVectorFromVec(value, c))))

\* CVector::<T, ROWS>::from(value).as_mat()
FixCVector ==
    \E value \in LifeData, r \in LifeDims : Keep(Value(AsMat(CVectorFromVec(value, r))))

\* RVector::from(CVector::<T, N>::from(value)).as_mat()
FixRVectorOfCVector ==
    \E value \in LifeData, n \in LifeDims :
        Keep(Value(AsMat(RVectorFromCVector(CVectorFromVec(value, n)))))

\* CVector::from(RVector::<T, N>::from(value)).as_mat()
FixCVectorOfRVector ==
    \E value \in LifeData, n \in LifeDims :
        Keep(Value(AsMat(CVectorFromRVector(RVectorFromVec(value, n)))))

NextFixed ==
    \/ FixNew \/ FixRand \/ FixFrom \/ FixSet
    \/ FixAdd \/ FixAddS \/ FixMul \/ FixReverse
    \/ FixRVector \/ FixCVector \/ FixRVectorOfCVector \/ FixCVectorOfRVector

SpecFixed == InitFixed /\ [][NextFixed]_vars

----------------------------------------------------------------------------
(* Claim about the life of a matrix, under SpecLife. *)

\* C1: data.len() == rows*cols holds in every state reachable through the
\* public interface: after the constructors, any sequence of set calls,
\* every operator result, apply, reverse, decoding a {data, rows, cols}
\* record, and any write to the public rows/cols fields.
C1_LengthIsRowsTimesCols == WellFormed(mat)

----------------------------------------------------------------------------
(* Claims about get and set, under SpecCell. *)

\* C4: get(row, col) returns absent, never a value or a fatal error, when
\* (row, col) is not a cell of the matrix, and a copy of the value at flat
\* offset row*cols+col when it is.  Stated for the calls whose offset fits
\* the word (C7 is about the others).
C4_GetOnlyCells ==
    (call.op = "get" /\ OffsetFits(pre, ArgRow, ArgCol)) =>
        IF IsCell(pre, ArgRow, ArgCol)
        THEN /\ call.kind = "some"
             /\ call.val = <<pre.data[ArgRow * pre.cols + ArgCol + 1]>>
        ELSE call.kind = "absent"

\* C5: set(value, row, col) on a (row, col) that is not a cell returns the
\* index error, does not panic and leaves data, rows and cols as they were.
\* Stated for the calls whose offset fits the word.
C5_SetRejectsNonCells ==
    (/\ call.op = "set"
     /\ OffsetFits(pre, ArgRow, ArgCol)
     /\ ~IsCell(pre, ArgRow, ArgCol)) =>
        /\ call.kind = "err_index"
        /\ mat = pre

\* C6: after a successful set(v, r, c) on a cell, get(r, c) returns v, every
\* other cell returns what it returned before, rows and cols are unchanged;
\* and new(rows, cols) followed by set(N[r][c], r, c) for every cell, in any
\* order, is the matrix Matrix::from(N).
C6_SetFrame ==
    /\ (call.op = "set" /\ call.kind = "ok" /\ IsCell(pre, ArgRow, ArgCol)) =>
          /\ Get(mat, ArgRow, ArgCol) = [kind |-> "some", val |-> <<call.args[1]>>]
          /\ \A cell \in CellsOf(pre) :
                cell # <<ArgRow, ArgCol>> =>
                    Get(mat, cell[1], cell[2]) = Get(pre, cell[1], cell[2])
          /\ mat.rows = pre.rows
          /\ mat.cols = pre.cols
    /\ (nested # <<>> /\ todo = {}) => Value(mat) = FromNested(nested)

\* a 2 x 3 matrix was built by six set calls, the last one overwriting a 0
\* with a 1 in a matrix that holds both values
C6_Witness ==
    /\ nested # <<>>
    /\ todo = {}
    /\ call.op = "set"
    /\ call.kind = "ok"
    /\ mat.rows = 2
    /\ mat.cols = 3
    /\ call.args[1] = 1
    /\ \E i \in 1..Len(mat.data) : mat.data[i] = 0

\* C7: a get or set whose mathematical offset row*cols + col does not fit
\* the word is rejected: get returns absent, set returns the index error and
\* leaves the matrix unchanged; the call does not abort and the offset is not
\* reduced modulo 2^w.
C7_OverflowRejected ==
    (call.op \in {"get", "set"} /\ ~OffsetFits(pre, ArgRow, ArgCol)) =>
        /\ call.op = "get" => call.kind = "absent"
        /\ call.op = "set" => (call.kind = "err_index" /\ mat = pre)

----------------------------------------------------------------------------
(* Claims about the iterators, under SpecRows and SpecCols. *)

\* C2: for a matrix of any shape, a Rows iterator consumed by any
\* interleaving of next and next_back yields exactly `rows` items before it
\* returns None; a forward yield is the next row from the front, a backward
\* yield the row at rows - backward_count - 1, each the length-cols slice of
\* that row, and no row is yielded twice or skipped.
C2_RowsYieldEveryRow ==
    call.op \in {"rows_next", "rows_next_back"} =>
        /\ call.kind # "panic"
        /\ it.fwd + it.back <= mat.rows
        /\ call.kind = "none" => it.fwd + it.back = mat.rows
        /\ (call.kind = "some" /\ call.op = "rows_next") =>
              /\ it = [fwd |-> call.args[1] + 1, back |-> call.args[2]]
              /\ call.val = <<RowOf(mat, call.args[1])>>
        /\ (call.kind = "some" /\ call.op = "rows_next_back") =>
              /\ it = [fwd |-> call.args[1], back |-> call.args[2] + 1]
              /\ call.val = <<RowOf(mat, mat.rows - call.args[2] - 1)>>

\* C3: for a matrix of any shape, a Columns iterator consumed by any
\* interleaving of next and next_back yields exactly `cols` items before it
\* returns None; the k-th forward yield is column k-1, the k-th backward
\* yield column cols-k, each the cells at flat offsets i*cols+c, every index
\* read lies in the buffer, and no column is yielded twice or skipped.
\* Stated for the matrices with at least one row and one column.
C3_ColumnsYieldEveryColumn ==
    (call.op \in {"cols_next", "cols_next_back"} /\ mat.rows > 0 /\ mat.cols > 0) =>
        /\ call.kind # "panic"
        /\ it.fwd + it.back <= mat.cols
        /\ call.kind = "none" => it.fwd + it.back = mat.cols
        /\ (call.kind = "some" /\ call.op = "cols_next") =>
              /\ it = [fwd |-> call.args[1] + 1, back |-> call.args[2]]
              /\ call.val = <<ColumnOf(mat, call.args[1])>>
        /\ (call.kind = "some" /\ call.op = "cols_next_back") =>
              /\ it = [fwd |-> call.args[1], back |-> call.args[2] + 1]
              /\ call.val = <<ColumnOf(mat, mat.cols - call.args[2] - 1)>>

----------------------------------------------------------------------------
(* Claims about the matrix-matrix operators, under SpecBin.  A and B are   *)
(* matrices of the data model: data.len() == rows*cols.                    *)

SameShape(a, b) == a.rows = b.rows /\ a.cols = b.cols

\* the sum over k in 0..n of A[i,k] * B[k,j], A[i,k] at offset i*A.cols+k and
\* B[k,j] at offset k*B.cols+j
RECURSIVE DotProduct(_, _, _, _, _)
DotProduct(a, b, i, j, n) ==
    IF n = 0 THEN 0
    ELSE DotProduct(a, b, i, j, n - 1)
         + a.data[i * a.cols + (n - 1) + 1] * b.data[(n - 1) * b.cols + j + 1]

C9_ElementwiseSumAndDifference ==
    (call.op \in {"add", "sub"} /\ SameShape(mat, rhs)) =>
        /\ res.kind = "value"
        /\ res.m.rows = mat.rows
        /\ res.m.cols = mat.cols
        /\ Len(res.m.data) = mat.rows * mat.cols
        /\ \A i \in 1..(mat.rows * mat.cols) :
              res.m.data[i] = IF call.op = "add"
                              THEN mat.data[i] + rhs.data[i]
                              ELSE mat.data[i] - rhs.data[i]

\* a difference of two 2 x 3 matrices with a cell below and a cell above zero
C9_Witness ==
    /\ call.op = "sub"
    /\ res.kind = "value"
    /\ res.m.rows = 2
    /\ res.m.cols = 3
    /\ \E i, j \in 1..6 : res.m.data[i] = 0 - 1 /\ res.m.data[j] = 1

----------------------------------------------------------------------------
(* Claims about the conversion from a nested sequence, under SpecFrom. *)

\* C11: for every nested sequence N whose inner sequences all have the same
\* length, collecting the items of Matrix::from(N).rows() from front to
\* exhaustion reproduces N exactly: the same number of rows, each row with
\* the same cells in the same order.  Stated for the N with at least one
\* inner sequence.
C11_RowsReproduceNested ==
    (Rectangular(nested) /\ Len(nested) > 0) =>
        /\ call.kind # "panic"
        /\ (call.op = "collect" /\ call.kind = "none") => got = nested

\* C12: constructing a Matrix from a nested sequence ends in exactly one of
\* two outcomes: a fatal failure and no Matrix when the inner sequences do
\* not all have the same length; otherwise a Matrix with rows the number of
\* inner sequences, cols their common length and data the row-major
\* concatenation of the inner sequences.
C12_FromOutcomes ==
    call.op = "from" =>
        IF ~Rectangular(nested) THEN res.kind = "panic"
        ELSE /\ res.kind = "value"
             /\ res.m.rows = Len(nested)
             /\ \A i \in 1..Len(nested) : res.m.cols = Len(nested[i])
             /\ res.m.data = Flatten(nested)

----------------------------------------------------------------------------
(* Claims about the scalar operators, reverse and pow, under SpecUn.  A is *)
(* a matrix of the data model: data.len() == rows*cols.                    *)

\* C13: for every matrix A and scalar s, A + s and A - s always succeed (no
\* failure outcome exists) and return a matrix of A's shape whose every flat
\* cell i equals A[i] + s (resp. A[i] - s).
C13_ScalarSumAndDifference ==
    call.op \in {"add_s", "sub_s"} =>
        /\ res.kind = "value"
        /\ res.m.rows = mat.rows
        /\ res.m.cols = mat.cols
        /\ Len(res.m.data) = mat.rows * mat.cols
        /\ \A i \in 1..(mat.rows * mat.cols) :
              res.m.data[i] = IF call.op = "add_s"
                              THEN mat.data[i] + call.args[1]
                              ELSE mat.data[i] - call.args[1]

\* A - 2 for a 2 x 3 matrix A with a cell 0 and a cell 1
C13_Witness ==
    /\ call.op = "sub_s"
    /\ call.args = <<2>>
    /\ mat.rows = 2 /\ mat.cols = 3
    /\ res.kind = "value"
    /\ \E i, j \in 1..6 : res.m.data[i] = 0 - 2 /\ res.m.data[j] = 0 - 1

\* C14: for every matrix A, reverse(A) has A's rows and cols and a flat
\* buffer with reverse(A)[i] == A[n-1-i] for n = rows*cols, and reverse is
\* an involution: reverse(reverse(A)) == A.
C14_ReverseInvolution ==
    call.op = "reverse" =>
        /\ res.kind = "value"
        /\ call.args = <<1>> =>
              /\ res.m.rows = mat.rows
              /\ res.m.cols = mat.cols
              /\ Len(res.m.data) = mat.rows * mat.cols
              /\ \A i \in 0..(mat.rows * mat.cols - 1) :
                    res.m.data[i + 1] = mat.data[(mat.rows * mat.cols - 1 - i) + 1]
        /\ call.args = <<2>> => res.m = mat

\* a 2 x 3 matrix that is not its own reversal was reversed twice
C14_Witness ==
    /\ call.op = "reverse"
    /\ call.args = <<2>>
    /\ mat.rows = 2 /\ mat.cols = 3
    /\ mat.data = <<1, 1, 0, 1, 0, 0>>
    /\ res.m = mat

----------------------------------------------------------------------------
(* Claim about an exhausted iterator, under SpecRows. *)

\* C16: the Rows iterator is fused: once the combined number of forward and
\* backward yields has reached `rows` (also when every item was taken from
\* the back), every further call to next or next_back returns None, leaves
\* both cursors unchanged and does not underflow when computing
\* rows - backward_count - 1.  Stated for the matrices with at least one row
\* and one column.
C16_FusedAfterExhaustion ==
    (/\ call.op \in {"rows_next", "rows_next_back"}
     /\ mat.rows > 0 /\ mat.cols > 0
     /\ call.args[1] + call.args[2] >= mat.rows) =>
        /\ call.kind = "none"
        /\ it = [fwd |-> call.args[1], back |-> call.args[2]]

----------------------------------------------------------------------------
(* Claim about the fixed-shape matrix, under SpecFixed. *)

\* C17: every value of the fixed-shape Matrix<T, ROWS, COLS> obtainable
\* through the public interface (new, rand, From<Vec<Vec<T>>>, set, add,
\* product, reverse, and the matrices exposed by RVector / CVector through
\* as_mat / as_mut_mat) has a backing buffer of length exactly ROWS*COLS.
C17_FixedBufferLength == Len(mat.data) = mat.rows * mat.cols

====
